---- MODULE Spec2Model ----
(***************************************************************************)
(* A model of volt's node version manager (src/src/commands/node.rs):      *)
(* `volt node use`, `volt node remove`, `volt node list` and               *)
(* `volt node install`, for the unix (linux, macos) and windows builds.    *)
(*                                                                         *)
(* The state is the part of the file system the commands read and write:   *)
(*   nodeDir      whether <data>/volt/node exists                          *)
(*   dirs         the directories in <data>/volt/node (by entry name)      *)
(*   current      the entry <data>/volt/node/current: on unix a symlink,   *)
(*                held as the name X of its target <node>/X/bin; on        *)
(*                windows a file, held as its content                      *)
(*   linkDir      unix ~/.local/bin: per binary name, the version whose    *)
(*                bin/ the link points into                                *)
(*   voltCurrent  windows <data>/volt/current, the file use_windows writes *)
(*   binExe       windows <data>/volt/bin/node.exe, by the version copied  *)
(* and the position of the running command (pc, cmd, args, exit, ...).     *)
(*                                                                         *)
(* File-system calls succeed in Spec and SpecInstall unless the code's own *)
(* state makes them fail (a missing path, an existing link); the network   *)
(* and the archive can fail in SpecInstall.                                *)
(***************************************************************************)
EXTENDS Integers, Sequences, FiniteSets, TLC

VARIABLES os, arch, nodeDir, dirs, current, linkDir, voltCurrent, binExe,
          pc, cmd, args, exit, pre, queue, cv, rstep, out,
          catalog, validversions, units, tarballs, started

fsvars == <<nodeDir, dirs, current, linkDir, voltCurrent, binExe>>
cmdvars == <<pc, cmd, args, exit, pre, queue, cv, rstep, out>>
instvars == <<catalog, validversions, units, tarballs, started>>
vars == <<os, arch, fsvars, cmdvars, instvars>>

----------------------------------------------------------------------------
(* Bounds *)

\* longest batch of versions given to one `remove`
MaxBatch == 2

----------------------------------------------------------------------------
(* Names *)

NoLink == "none"

\* Version strings as install names the directories (i.to_string()).
Versions == {"16.1.0", "18.0.0"}

\* Arguments tried for `use` and `remove`: the versions, and the reserved
\* entry name, which is no version.
ArgNames == Versions \cup {"current"}

BinNames == {"node", "npm", "corepack"}

\* The entries of <node>/<v>/bin of an unpacked distribution.
Bins(v) ==
    CASE v = "16.1.0" -> {"node", "npm"}
      [] v = "18.0.0" -> {"node", "corepack"}
      [] OTHER -> {}

\* v.parse::<Version>() succeeds
ParsesAsVersion(s) == s \in Versions

Unix == os \in {"linux", "macos"}

\* dirs::executable_dir(): Some(~/.local/bin) on linux, None on macos and
\* windows.
ExecutableDirIsSome == os = "linux"

----------------------------------------------------------------------------
(* Paths *)

\* <node>/current exists, following the link: the target <node>/X/bin is
\* there when X is an installed directory (a link to <node>/current/bin
\* loops through itself and does not resolve).
CurrentResolves == current # NoLink /\ current \in dirs

\* <node>/<name> exists
NodePathExists(name) ==
    \/ name \in dirs
    \/ name = "current" /\ (IF Unix THEN CurrentResolves ELSE current # NoLink)

\* ~/.local/bin/<b> exists, following the link
LinkResolves(b) == linkDir[b] # NoLink /\ linkDir[b] \in dirs

\* read_dir(<node>) yields nothing
NodeDirEmpty == dirs = {} /\ current = NoLink

Snapshot == [dirs |-> dirs, current |-> current, linkDir |-> linkDir,
             voltCurrent |-> voltCurrent, binExe |-> binExe]

----------------------------------------------------------------------------
(* Command bookkeeping *)

Idle == pc = "idle"

\* A command that ran to its end in one step.
Finish(name, a, code) ==
    /\ pc' = "idle"
    /\ cmd' = name
    /\ args' = a
    /\ exit' = code
    /\ pre' = Snapshot
    /\ queue' = <<>>
    /\ cv' = NoLink
    /\ rstep' = "check"

----------------------------------------------------------------------------
(* volt node list *)

\* The names read_dir(<node>) yields, without "current".
ListedFiles == dirs

NodeList ==
    /\ Idle
    /\ out' = IF nodeDir THEN ListedFiles ELSE {}
    /\ Finish("list", <<>>, IF nodeDir /\ ListedFiles # {} THEN 0 ELSE 1)
    /\ UNCHANGED <<os, arch, fsvars, instvars>>

----------------------------------------------------------------------------
(* volt node use <version>, unix *)

\* LinksAfterTeardown without the removal loop.
LinksNoTeardown == linkDir

\* The links of the previously active version are removed: for every entry
\* of the directory `current` resolves to, the link of that name in
\* ~/.local/bin, if it exists (following the link).
LinksAfterTeardown ==
    [b \in BinNames |->
        IF b \in Bins(current) /\ LinkResolves(b) THEN NoLink ELSE linkDir[b]]

\* One link per entry of <node>/<ver>/bin, replacing what is at that name.
LinksAfterBuild(links, ver) ==
    [b \in BinNames |-> IF b \in Bins(ver) THEN ver ELSE links[b]]

UseUnix(ver) ==
    /\ Idle
    /\ Unix
    /\ out' = {}
    /\ UNCHANGED <<os, arch, nodeDir, dirs, voltCurrent, binExe, instvars>>
    /\ IF ~nodeDir
       THEN \* read_dir(get_node_dir()).unwrap() panics
            /\ Finish("use", <<ver>>, 101)
            /\ UNCHANGED <<current, linkDir>>
       ELSE IF NodeDirEmpty
       THEN \* "No node versions installed!", exit(1)
            /\ Finish("use", <<ver>>, 1)
            /\ UNCHANGED <<current, linkDir>>
       ELSE IF ~NodePathExists(ver)
       THEN \* "That version of node is not installed!", then Ok(())
            /\ Finish("use", <<ver>>, 0)
            /\ UNCHANGED <<current, linkDir>>
       ELSE IF ~CurrentResolves /\ current # NoLink
       THEN \* current.exists() is false for a dangling link, and symlink()
            \* onto the existing entry fails: unwrap() panics
            /\ Finish("use", <<ver>>, 101)
            /\ UNCHANGED <<current, linkDir>>
       ELSE /\ current' = ver
            /\ IF ver \in dirs
               THEN /\ linkDir' = LinksAfterBuild(
                          IF CurrentResolves THEN LinksAfterTeardown
                                             ELSE linkDir, ver)
                    /\ Finish("use", <<ver>>, 0)
               ELSE \* ver = "current": the new link points to
                    \* <node>/current/bin, itself; read_dir(&to_install)
                    \* fails and unwrap() panics after the teardown
                    /\ linkDir' = LinksAfterTeardown
                    /\ Finish("use", <<ver>>, 101)

----------------------------------------------------------------------------
(* volt node use <version>, windows *)

\* <node>/<version>/node.exe exists
NodeExeExists(ver) == ver \in dirs

use_windows(ver) ==
    /\ Idle
    /\ os = "windows"
    /\ out' = {}
    /\ UNCHANGED <<os, arch, nodeDir, dirs, current, linkDir, instvars>>
    /\ Finish("use", <<ver>>, 0)
    /\ IF NodeExeExists(ver)
       THEN \* the old volt/bin/node.exe is removed, the new one copied, and
            \* the version written to volt/current
            /\ binExe' = ver
            /\ voltCurrent' = ver
       ELSE \* "That version of node is not installed!"
            UNCHANGED <<binExe, voltCurrent>>

NodeUse == \E ver \in ArgNames : UseUnix(ver) \/ use_windows(ver)

----------------------------------------------------------------------------
(* volt node remove <version...>, unix *)

Batches == UNION {[1..n -> ArgNames] : n \in 1..MaxBatch}

\* current_version: the name of the directory above what `current`
\* resolves to, None when <node>/current does not exist.
CurrentVersion == IF CurrentResolves THEN current ELSE NoLink

\* The validation loop lets the batch through: every specifier parses as
\* a version and <node>/<v> exists.
BatchValid(batch) ==
    \A i \in 1..Len(batch) :
        ParsesAsVersion(batch[i]) /\ NodePathExists(batch[i])

\* A command that goes on to its loop.
Begin(name, a) ==
    /\ pc' = name
    /\ cmd' = name
    /\ args' = a
    /\ exit' = -1
    /\ pre' = Snapshot
    /\ queue' = a
    /\ rstep' = "check"

\* The command ends from inside its loop.
End(code) ==
    /\ pc' = "idle"
    /\ exit' = code
    /\ queue' = <<>>
    /\ rstep' = "check"
    /\ UNCHANGED <<cmd, args, pre, cv>>

RemoveUnixStart(batch) ==
    /\ Idle
    /\ Unix
    /\ out' = {}
    /\ UNCHANGED <<os, arch, fsvars, instvars>>
    /\ IF BatchValid(batch)
       THEN Begin("remove", batch) /\ cv' = CurrentVersion
       ELSE \* "not a valid version" or "not installed", exit(1)
            Finish("remove", batch, 1)

\* Per-binary links of the active version and the `current` link.
LinksAfterRemove(v) ==
    [b \in BinNames |-> IF b \in Bins(v) THEN NoLink ELSE linkDir[b]]

\* RemoveUnixDeactivate without the test that the version is the current
\* one: the links of the version's binaries and `current` are removed for
\* every version of the batch.
RemoveUnixDeactivateAlways ==
    /\ pc = "remove"
    /\ Unix
    /\ rstep = "check"
    /\ UNCHANGED <<os, arch, nodeDir, dirs, voltCurrent, binExe, out, instvars>>
    /\ linkDir' = LinksAfterRemove(Head(queue))
    /\ current' = NoLink
    /\ rstep' = "delete"
    /\ UNCHANGED <<pc, cmd, args, exit, pre, queue, cv>>

\* if matches!(current_version, Some(ver) if ver == v) { ... }
RemoveUnixDeactivate ==
    /\ pc = "remove"
    /\ Unix
    /\ rstep = "check"
    /\ UNCHANGED <<os, arch, nodeDir, dirs, voltCurrent, binExe, out, instvars>>
    /\ LET v == Head(queue) IN
       IF cv # v
       THEN /\ rstep' = "delete"
            /\ UNCHANGED <<current, linkDir, pc, cmd, args, exit, pre, queue, cv>>
       ELSE IF v \notin dirs \/ (Bins(v) # {} /\ ~ExecutableDirIsSome)
       THEN \* read_dir(current_dir.join("bin")).unwrap() or
            \* dirs::executable_dir().unwrap() panics
            /\ End(101)
            /\ UNCHANGED <<current, linkDir>>
       ELSE /\ linkDir' = LinksAfterRemove(v)
            /\ current' = NoLink
            /\ rstep' = "delete"
            /\ UNCHANGED <<pc, cmd, args, exit, pre, queue, cv>>

\* std::fs::remove_dir_all(node_dir.join(v)), its result dropped
RemoveUnixDeleteDir ==
    /\ pc = "remove"
    /\ Unix
    /\ rstep = "delete"
    /\ dirs' = dirs \ {Head(queue)}
    /\ UNCHANGED <<os, arch, nodeDir, current, linkDir, voltCurrent, binExe,
                   out, instvars>>
    /\ IF Len(queue) = 1
       THEN End(0)
       ELSE /\ queue' = Tail(queue)
            /\ rstep' = "check"
            /\ UNCHANGED <<pc, cmd, args, exit, pre, cv>>

----------------------------------------------------------------------------
(* volt node remove <version...>, windows *)

RemoveWindowsStart(batch) ==
    /\ Idle
    /\ os = "windows"
    /\ out' = {}
    /\ UNCHANGED <<os, arch, fsvars, instvars>>
    /\ IF current = NoLink
       THEN \* read_to_string(<node>/current).unwrap() panics
            Finish("remove", batch, 101)
       ELSE Begin("remove", batch) /\ cv' = current

\* "Failed to remove NodeJS version {version}.\nThat version was not
\* installed."
RemoveFailedMessage(version) == "Failed to remove NodeJS version " \o version

\* One round of `for version in self.versions`.
RemoveWindowsStep ==
    /\ pc = "remove"
    /\ os = "windows"
    /\ UNCHANGED <<os, arch, nodeDir, current, linkDir, voltCurrent, binExe,
                   instvars>>
    /\ LET version == Head(queue) IN
       IF version \notin dirs /\ NodePathExists(version)
       THEN \* <node>/current is a file: remove_dir_all(..).unwrap() panics
            /\ End(101)
            /\ UNCHANGED <<dirs, out>>
       ELSE \* the directory is removed, or "That version was not
            \* installed."; then <node>/node.exe is removed if the version
            \* is the used one (no command creates that file)
            /\ dirs' = dirs \ {version}
            /\ out' = IF version \in dirs
                      THEN out
                      ELSE out \cup {RemoveFailedMessage(version)}
            /\ IF Len(queue) = 1
               THEN End(0)
               ELSE /\ queue' = Tail(queue)
                    /\ UNCHANGED <<pc, cmd, args, exit, pre, cv, rstep>>

NodeRemove ==
    \/ \E batch \in Batches : RemoveUnixStart(batch)
    \/ RemoveUnixDeactivate
    \/ RemoveUnixDeleteDir
    \/ \E batch \in Batches : RemoveWindowsStart(batch)
    \/ RemoveWindowsStep

----------------------------------------------------------------------------
(* The life cycle of installed versions: use, remove and list, one command
   at a time, from any set of installed versions with none active. *)

NoLinks == [b \in BinNames |-> NoLink]

InstIdle ==
    /\ catalog = <<>>
    /\ validversions = <<>>
    /\ units = <<>>
    /\ tarballs = {}
    /\ started = {}

CmdIdle ==
    /\ pc = "idle"
    /\ cmd = "none"
    /\ args = <<>>
    /\ exit = 0
    /\ queue = <<>>
    /\ cv = NoLink
    /\ rstep = "check"
    /\ out = {}

Init ==
    /\ os \in {"linux", "macos", "windows"}
    /\ arch = "x86_64"
    /\ nodeDir \in BOOLEAN
    /\ dirs \in SUBSET Versions
    /\ ~nodeDir => dirs = {}
    /\ linkDir = NoLinks
    /\ voltCurrent = NoLink
    /\ binExe = NoLink
    \* <node>/current: no link on unix; on windows no command writes the
    \* file `remove` reads, so it is there or not, naming an installed
    \* version
    /\ current \in (IF os = "windows" THEN dirs ELSE {}) \cup {NoLink}
    /\ CmdIdle
    /\ pre = Snapshot
    /\ InstIdle

Next == NodeUse \/ NodeRemove \/ NodeList

Spec == Init /\ [][Next]_vars

----------------------------------------------------------------------------
(* volt node install <version...>: resolution of the specifiers *)

\* node_semver::Version values are <<major, minor, patch>>.
NoVersion == <<>>

VersionPool == {<<8, 0, 0>>, <<16, 0, 0>>, <<16, 1, 0>>, <<18, 0, 0>>}

\* The versions a specifier of the model can spell.
Spellable == VersionPool \cup {<<20, 0, 0>>}

Digit(d) ==
    CASE d = 0 -> "0" [] d = 1 -> "1" [] d = 2 -> "2" [] d = 3 -> "3"
      [] d = 4 -> "4" [] d = 5 -> "5" [] d = 6 -> "6" [] d = 7 -> "7"
      [] d = 8 -> "8" [] d = 9 -> "9"

NumStr(n) == IF n < 10 THEN Digit(n) ELSE Digit(n \div 10) \o Digit(n % 10)

\* Version::to_string()
VersionToString(ver) ==
    NumStr(ver[1]) \o "." \o NumStr(ver[2]) \o "." \o NumStr(ver[3])

\* v.parse::<Version>(): the three numbers, with or without a leading "v"
\* (index.json itself spells its versions "v16.1.0").
ParseVersion(s) ==
    IF \E ver \in Spellable : s \in {VersionToString(ver), "v" \o VersionToString(ver)}
    THEN CHOOSE ver \in Spellable : s \in {VersionToString(ver), "v" \o VersionToString(ver)}
    ELSE NoVersion

\* Ord for Version
VersionLess(a, b) ==
    \/ a[1] < b[1]
    \/ a[1] = b[1] /\ a[2] < b[2]
    \/ a[1] = b[1] /\ a[2] = b[2] /\ a[3] < b[3]

\* v.parse::<Range>() succeeds, for a string that is no version
RangeTokens == {"^16", ">=8", "<10", "^20"}

\* Version::satisfies(&range)
Satisfies(ver, range) ==
    CASE range = "^16" -> ver[1] = 16
      [] range = ">=8" -> ~VersionLess(ver, <<8, 0, 0>>)
      [] range = "<10" -> VersionLess(ver, <<10, 0, 0>>)
      [] range = "^20" -> ver[1] = 20
      [] OTHER -> FALSE

\* Range::parse(">=10").allows_any(&range)
AllowsAnyFrom10(range) == range \in {"^16", ">=8", "^20"}

\* cfg!(all(unix, target_arch = "X86")): target_arch is spelled "x86" by
\* the compiler, so no build has it "X86".
Cfg32BitUnix == Unix /\ arch = "X86"

\* const ARCH
ARCH ==
    IF arch = "X86" THEN "X86"
    ELSE IF arch = "x86_64" THEN "X64"
    ELSE "Unknown"

\* The catalog's versions, as a set.
CatalogVersions(cat) == {cat[i] : i \in 1..Len(cat)}

\* .max() of the catalog versions satisfying the range, None if there is none
MaxSatisfying(cat, range) ==
    LET sat == {ver \in CatalogVersions(cat) : Satisfies(ver, range)}
    IN  IF sat = {} THEN NoVersion
        ELSE CHOOSE m \in sat : \A o \in sat : ~VersionLess(m, o)

\* for n in &node_versions { if *v == n.version.to_string() { found } }
FoundInCatalog(v, cat) == \E i \in 1..Len(cat) : v = VersionToString(cat[i])

\* One round of `for v in &self.versions`: the version pushed to
\* validversions ("push"), the specifier skipped ("continue"), or the
\* command ended with "Invalid version" ("exit").
ResolveSpecifier(v, cat) ==
    IF ParseVersion(v) # NoVersion
    THEN IF Cfg32BitUnix /\ ~VersionLess(ParseVersion(v), <<10, 0, 0>>)
         THEN [kind |-> "continue", ver |-> NoVersion]
         ELSE IF FoundInCatalog(v, cat)
         THEN [kind |-> "push", ver |-> ParseVersion(v)]
         ELSE [kind |-> "exit", ver |-> NoVersion]
    ELSE IF v \in RangeTokens
    THEN IF Cfg32BitUnix /\ AllowsAnyFrom10(v)
         THEN [kind |-> "continue", ver |-> NoVersion]
         ELSE IF MaxSatisfying(cat, v) # NoVersion
         THEN [kind |-> "push", ver |-> MaxSatisfying(cat, v)]
         ELSE [kind |-> "exit", ver |-> NoVersion]
    ELSE [kind |-> "exit", ver |-> NoVersion]

\* validversions after the first n specifiers of the batch.
RECURSIVE Pushed(_, _, _)
Pushed(batch, cat, n) ==
    IF n = 0 THEN <<>>
    ELSE LET r == ResolveSpecifier(batch[n], cat)
         IN  IF r.kind = "push"
             THEN Append(Pushed(batch, cat, n - 1), r.ver)
             ELSE Pushed(batch, cat, n - 1)

\* BatchExits were only the first specifier validated before the units
\* are spawned.
BatchExitsFirstOnly(batch, cat) ==
    ResolveSpecifier(batch[1], cat).kind = "exit"

\* Some specifier of the batch ends the command.
BatchExits(batch, cat) ==
    \E i \in 1..Len(batch) : ResolveSpecifier(batch[i], cat).kind = "exit"

----------------------------------------------------------------------------
(* volt node install <version...>: the command and its units *)

\* most specifiers given to one `install`
MaxInstall == 3

\* index.json, newest first
DefaultCatalog == <<<<18, 0, 0>>, <<16, 1, 0>>, <<16, 0, 0>>, <<8, 0, 0>>>>

\* Specifiers tried: two exact versions, a range (16.1.0 in DefaultCatalog),
\* an exact version and a range that match nothing in DefaultCatalog, and
\* one that is neither a version nor a range.
InstallTokens == {"8.0.0", "^16", "18.0.0", "20.0.0", "^20", "bogus"}

InstallBatches == UNION {[1..n -> InstallTokens] : n \in 1..MaxInstall}

\* UnpackName were every tarball to unpack to one directory.
UnpackNameShared(ver) == "node-unpack"

\* UnpackName were the tarball to unpack to the version's own name.
UnpackNameIsVersion(ver) == VersionToString(ver)

\* The directory the tarball unpacks to: node-v<i>-<PLATFORM>-<ARCH>
UnpackName(ver) ==
    "node-v" \o VersionToString(ver) \o "-" \o
    (IF os = "macos" THEN "darwin" ELSE os) \o "-" \o
    (IF ARCH = "X64" THEN "x64" ELSE "x86")

\* The directory the unit renames to: node_path.join(&i.to_string())
InstalledName(ver) == VersionToString(ver)

NewUnit(ver) ==
    [ver |-> ver, st |-> "spawned", existed |-> FALSE, renamed |-> FALSE,
     fault |-> "none"]

\* The command up to the spawn of its units: the catalog is fetched, the
\* storage root created, the specifiers resolved in order and one unit
\* spawned per element of validversions.
InstallStart(batch, cat) ==
    /\ Idle
    /\ out' = {}
    /\ cmd' = "install"
    /\ args' = batch
    /\ pre' = Snapshot
    /\ catalog' = cat
    /\ nodeDir' = TRUE
    /\ tarballs' = {}
    /\ started' = {}
    /\ UNCHANGED <<os, arch, dirs, current, linkDir, voltCurrent, binExe,
                   queue, cv, rstep>>
    /\ IF BatchExits(batch, cat)
       THEN \* "Invalid version", exit(1)
            /\ pc' = "idle"
            /\ exit' = 1
            /\ validversions' = <<>>
            /\ units' = <<>>
       ELSE /\ validversions' = Pushed(batch, cat, Len(batch))
            /\ IF ARCH = "Unknown" /\ validversions' # <<>>
               THEN \* formatting {ARCH} into the first download URL
                    \* reaches unreachable!()
                    /\ pc' = "idle"
                    /\ exit' = 101
                    /\ units' = <<>>
               ELSE /\ pc' = "install"
                    /\ exit' = -1
                    /\ units' = [k \in 1..Len(validversions') |->
                                    NewUnit(validversions'[k])]

\* reqwest::get(index.json) fails: unwrap() panics before anything is
\* written
InstallCatalogFails(batch) ==
    /\ Idle
    /\ out' = {}
    /\ Finish("install", batch, 101)
    /\ UNCHANGED <<os, arch, fsvars, instvars>>

UnitAt(k, state) == k \in 1..Len(units) /\ pc = "install" /\ units[k].st = state

SetUnit(k, u) == units' = [units EXCEPT ![k] = u]

\* UnitCheck without the early return.
UnitCheckNoReturn(k) ==
    /\ UnitAt(k, "spawned")
    /\ SetUnit(k, [units[k] EXCEPT
                      !.existed = InstalledName(units[k].ver) \in dirs,
                      !.st = "installing"])
    /\ UNCHANGED <<os, arch, fsvars, cmdvars, catalog, validversions,
                   tarballs, started>>

\* if node_path.join(&i.to_string()).exists() { "Already Installed"; return }
UnitCheck(k) ==
    /\ UnitAt(k, "spawned")
    /\ LET there == InstalledName(units[k].ver) \in dirs IN
       SetUnit(k, [units[k] EXCEPT !.existed = there,
                                   !.st = IF there THEN "already"
                                                   ELSE "installing"])
    /\ UNCHANGED <<os, arch, fsvars, cmdvars, catalog, validversions,
                   tarballs, started>>

\* reqwest::blocking::get(&download_url).unwrap() and .bytes().unwrap()
UnitDownload(k, ok) ==
    /\ UnitAt(k, "installing")
    /\ started' = started \cup {k}
    /\ SetUnit(k, IF ok THEN [units[k] EXCEPT !.st = "downloaded"]
                        ELSE [units[k] EXCEPT !.st = "panicked",
                                              !.fault = "download"])
    /\ UNCHANGED <<os, arch, fsvars, cmdvars, catalog, validversions, tarballs>>

\* windows: nothing follows the download but the "Installed" message
UnitFinishWindows(k) ==
    /\ UnitAt(k, "downloaded")
    /\ os = "windows"
    /\ SetUnit(k, [units[k] EXCEPT !.st = "installed"])
    /\ UNCHANGED <<os, arch, fsvars, cmdvars, catalog, validversions,
                   tarballs, started>>

\* unix: the tarball is created in the temporary directory, decompressed
\* into, reopened and unpacked into the storage root
UnitUnpack(k, ok, partial) ==
    /\ UnitAt(k, "downloaded")
    /\ Unix
    /\ tarballs' = tarballs \cup {units[k].ver}
    /\ dirs' = IF ok \/ partial THEN dirs \cup {UnpackName(units[k].ver)}
                                ELSE dirs
    /\ SetUnit(k, IF ok THEN [units[k] EXCEPT !.st = "unpacked"]
                        ELSE [units[k] EXCEPT !.st = "panicked",
                                              !.fault = "extract"])
    /\ UNCHANGED <<os, arch, nodeDir, current, linkDir, voltCurrent, binExe,
                   cmdvars, catalog, validversions, started>>

\* rename(from, to) succeeds when `from` is there and `to` is not (a
\* directory with entries cannot be replaced) and the system lets it
RenameSucceeds(k, ok) ==
    /\ ok
    /\ UnpackName(units[k].ver) \in dirs
    /\ InstalledName(units[k].ver) \notin dirs

\* std::fs::rename(from, to), its result dropped, then "Installed"
UnitRename(k, ok) ==
    /\ UnitAt(k, "unpacked")
    /\ dirs' = IF RenameSucceeds(k, ok)
               THEN (dirs \ {UnpackName(units[k].ver)})
                        \cup {InstalledName(units[k].ver)}
               ELSE dirs
    /\ SetUnit(k, [units[k] EXCEPT !.st = "installed",
                                   !.renamed = RenameSucceeds(k, ok),
                                   !.fault = IF ok THEN "none" ELSE "rename"])
    /\ UNCHANGED <<os, arch, nodeDir, current, linkDir, voltCurrent, binExe,
                   cmdvars, catalog, validversions, tarballs, started>>

UnitDone(k) == units[k].st \in {"already", "installed", "panicked"}

\* join_all(handles).await, its result dropped; Ok(()); the temporary
\* directory is dropped with its tarballs
InstallJoin ==
    /\ pc = "install"
    /\ \A k \in 1..Len(units) : UnitDone(k)
    /\ pc' = "idle"
    /\ exit' = 0
    /\ tarballs' = {}
    /\ UNCHANGED <<os, arch, fsvars, cmd, args, pre, queue, cv, rstep, out,
                   catalog, validversions, units, started>>

NodeInstallUnits ==
    \/ \E k \in 1..MaxInstall : UnitCheck(k)
    \/ \E k \in 1..MaxInstall, ok \in BOOLEAN : UnitDownload(k, ok)
    \/ \E k \in 1..MaxInstall : UnitFinishWindows(k)
    \/ \E k \in 1..MaxInstall, ok \in BOOLEAN, partial \in BOOLEAN :
          UnitUnpack(k, ok, partial)
    \/ \E k \in 1..MaxInstall, ok \in BOOLEAN : UnitRename(k, ok)
    \/ InstallJoin

\* One install command, from a storage root that may hold a version.
InitInstall ==
    /\ os \in {"linux", "windows"}
    /\ arch \in {"x86_64", "x86"}
    /\ nodeDir \in BOOLEAN
    /\ dirs \in SUBSET {"16.1.0"}
    /\ ~nodeDir => dirs = {}
    /\ current = NoLink
    /\ linkDir = NoLinks
    /\ voltCurrent = NoLink
    /\ binExe = NoLink
    /\ CmdIdle
    /\ pre = Snapshot
    /\ InstIdle

\* The command is run once.
NextInstall ==
    \/ cmd = "none" /\ \E batch \in InstallBatches :
          InstallStart(batch, DefaultCatalog)
    \/ cmd = "none" /\ \E batch \in InstallBatches : InstallCatalogFails(batch)
    \/ NodeInstallUnits

SpecInstall == InitInstall /\ [][NextInstall]_vars

----------------------------------------------------------------------------
(* Resolution of one specifier against any catalog, in any order, on any
   build target; the command then runs on. *)

\* most entries of a catalog
MaxCatalog == 3

IsInjective(f) == \A i, j \in DOMAIN f : f[i] = f[j] => i = j

Catalogs ==
    {c \in UNION {[1..n -> VersionPool] : n \in 0..MaxCatalog} : IsInjective(c)}

ResolveTokens ==
    {"8.0.0", "16.0.0", "16.1.0", "18.0.0", "20.0.0", "v16.1.0",
     "^16", ">=8", "<10", "^20", "bogus"}

InitResolve ==
    /\ os \in {"linux", "macos", "windows"}
    /\ arch \in {"x86_64", "x86", "aarch64"}
    /\ nodeDir = TRUE
    /\ dirs = {}
    /\ current = NoLink
    /\ linkDir = NoLinks
    /\ voltCurrent = NoLink
    /\ binExe = NoLink
    /\ CmdIdle
    /\ pre = Snapshot
    /\ InstIdle

NextResolve ==
    \/ cmd = "none" /\ \E cat \in Catalogs, v \in ResolveTokens :
          InstallStart(<<v>>, cat)
    \/ NodeInstallUnits

SpecResolve == InitResolve /\ [][NextResolve]_vars

----------------------------------------------------------------------------
(* Claims about resolution *)

\* The command has resolved its one specifier.
Resolved == cmd = "install" /\ Len(args) = 1

\* The 32-bit x86 unix targets, for which no build of 10.0.0 or later
\* exists.
Is32BitUnix == Unix /\ arch = "x86"

\* C5: where every version is eligible for the platform, an exact-version
\* specifier whose version is in the catalog resolves to exactly that
\* version; one whose version is not in the catalog ends the command with
\* the no-match error, with no unit started and no directory created.
C5_ExactResolution ==
    (Resolved /\ ~Is32BitUnix /\ ParseVersion(args[1]) # NoVersion)
    => IF ParseVersion(args[1]) \in CatalogVersions(catalog)
       THEN validversions = <<ParseVersion(args[1])>>
       ELSE exit = 1 /\ units = <<>> /\ dirs = pre.dirs

Eligible(cat) ==
    {ver \in CatalogVersions(cat) :
        ~(Is32BitUnix /\ ~VersionLess(ver, <<10, 0, 0>>))}

\* C6: a range specifier resolves to the greatest catalog version that
\* satisfies it among the versions eligible for the platform, whatever the
\* order of the catalog; when no eligible version satisfies it the command
\* ends with the no-match error.
C6_RangeResolution ==
    (Resolved /\ ParseVersion(args[1]) = NoVersion /\ args[1] \in RangeTokens)
    => LET sat == {ver \in Eligible(catalog) : Satisfies(ver, args[1])}
       IN  IF sat = {}
           THEN exit = 1 /\ units = <<>>
           ELSE /\ Len(validversions) = 1
                /\ validversions[1] \in sat
                /\ \A o \in sat : ~VersionLess(validversions[1], o)

----------------------------------------------------------------------------
(* Claims about the install units *)

\* C7: no two units of one install command are for the same version.
C7_OneUnitPerVersion ==
    \A j, k \in 1..Len(units) : units[j].ver = units[k].ver => j = k

InstallEnded == Idle /\ cmd = "install" /\ exit = 0

\* Some unit failed at its download, its extraction or its rename.
SomeUnitFailed == \E b \in 1..Len(units) : units[b].fault # "none"

\* C8: when the command returns from installing three distinct versions
\* of which a unit has failed, every unit that met no failure of its own
\* has its installed-version directory, however the units interleaved.
C8_FailureIsolation ==
    (InstallEnded /\ SomeUnitFailed /\ Len(units) = 3 /\ C7_OneUnitPerVersion)
    => \A k \in 1..Len(units) :
          units[k].fault = "none" => InstalledName(units[k].ver) \in dirs

\* The same on the unix builds, where the units unpack and rename.
C8_FailureIsolationUnix == Unix => C8_FailureIsolation

\* C9: a unit that finds its version's directory reports AlreadyInstalled
\* and starts no download, the directory stays, and the command exits
\* with code 0.
C9_AlreadyInstalledShortCircuit ==
    \A k \in 1..Len(units) :
        units[k].existed
        => /\ units[k].st = "already"
           /\ k \notin started
           /\ InstalledName(units[k].ver) \in dirs
           /\ (Idle => exit = 0)

\* Some unit for the version has renamed its directory into place.
RenamedFor(ver) ==
    \E j \in 1..Len(units) : units[j].ver = ver /\ units[j].renamed

\* C10: a version that was not installed when the command began has no
\* directory named by its version string as long as no rename to it has
\* succeeded, in every state of its units, those left by a failed download
\* or extraction included.
C10_RenameIsInstallPoint ==
    \A k \in 1..Len(units) :
        (InstalledName(units[k].ver) \notin pre.dirs
            /\ ~RenamedFor(units[k].ver))
        => InstalledName(units[k].ver) \notin dirs

\* The strings that parse as the version.
SpellingsOf ==
    [ver \in Spellable |->
        {VersionToString(ver), "v" \o VersionToString(ver)}]

\* The specifier is neither a version nor a range, or no version of the
\* catalog matches it.
BadSpecifier(v, cat) ==
    IF v \in RangeTokens
    THEN \A ver \in CatalogVersions(cat) : ~Satisfies(ver, v)
    ELSE \A i \in 1..Len(cat) : v \notin SpellingsOf[cat[i]]

\* C11: an install whose batch holds a bad specifier, the catalog fetched,
\* has ended with exit code 1 without a unit: no download has begun and no
\* directory has been created, wherever the bad specifier is in the batch.
C11_BadSpecifierAbortsInstall ==
    (/\ cmd = "install"
     /\ catalog # <<>>
     /\ \E i \in 1..Len(args) : BadSpecifier(args[i], catalog))
    => /\ Idle
       /\ exit = 1
       /\ units = <<>>
       /\ started = {}
       /\ tarballs = {}
       /\ dirs = pre.dirs

\* The command was rejected for a bad specifier that follows a good one.
C11_Witness ==
    /\ cmd = "install"
    /\ exit = 1
    /\ \E i, j \in 1..Len(args) :
          /\ i < j
          /\ ~BadSpecifier(args[i], catalog)
          /\ BadSpecifier(args[j], catalog)

\* A unit found its version installed and the command has returned 0 after
\* another unit downloaded.
C9_Witness ==
    /\ InstallEnded
    /\ started # {}
    /\ \E k \in 1..Len(units) : units[k].existed /\ units[k].st = "already"

\* A unit failed while unpacking and left its partly unpacked directory.
C10_Witness ==
    \E k \in 1..Len(units) :
        /\ units[k].st = "panicked"
        /\ units[k].fault = "extract"
        /\ UnpackName(units[k].ver) \in dirs
        /\ InstalledName(units[k].ver) \notin dirs

----------------------------------------------------------------------------
(* Claims about use and remove *)

\* The version the active-version state points to: the target of the
\* `current` link on unix, the content of the marker use_windows writes on
\* windows.
Active == IF Unix THEN current ELSE voltCurrent

ActiveBefore == IF Unix THEN pre.current ELSE pre.voltCurrent

\* C1: between commands, a version the active-version state points to has
\* its installed-version directory.
C1_ActiveVersionInstalled ==
    (Idle /\ Active \in Versions) => Active \in dirs

\* C2: when a remove that named the active version has completed, the
\* active-version state is unset, no per-binary link points into that
\* version, and its directory is gone.
C2_RemoveActiveClearsState ==
    (/\ Idle /\ cmd = "remove" /\ exit = 0
     /\ ActiveBefore \in Versions
     /\ \E i \in 1..Len(args) : args[i] = ActiveBefore)
    => /\ Active = NoLink
       /\ current = NoLink
       /\ \A b \in BinNames : linkDir[b] # ActiveBefore
       /\ ActiveBefore \notin dirs

\* C3: a use of a version that has no installed-version directory does not
\* return success: its exit code is not 0.
C3_UseNotInstalledFails ==
    (Idle /\ cmd = "use" /\ args[1] \in Versions /\ args[1] \notin pre.dirs)
    => exit # 0

\* The batch held a specifier that is no version or names no installed
\* version when the command began.
BadBatch ==
    \E i \in 1..Len(args) :
        ~ParsesAsVersion(args[i]) \/ args[i] \notin pre.dirs

\* C4: a remove whose batch holds a specifier that is no version or is not
\* installed has deleted nothing at any point of its run: every directory,
\* per-binary link and `current` entry is as it was when the command began.
C4_RemoveRejectsBadBatch ==
    (cmd = "remove" /\ BadBatch)
    => /\ dirs = pre.dirs
       /\ current = pre.current
       /\ linkDir = pre.linkDir
       /\ voltCurrent = pre.voltCurrent
       /\ binExe = pre.binExe

\* The statements of C1, C2 and C4 on the unix builds, whose remove validates
\* the batch and clears the links and `current` before it deletes.
UnixActiveVersionInstalled == Unix => C1_ActiveVersionInstalled
UnixRemoveActiveClearsState == Unix => C2_RemoveActiveClearsState
UnixRemoveRejectsBadBatch == Unix => C4_RemoveRejectsBadBatch

\* C12: a unit that has reported "Installed" has its installed-version
\* directory in the storage root, and once the command has returned every
\* unit whose download, extraction or rename failed has reported "Failed".
C12_InstalledMeansDirectory ==
    \A k \in 1..Len(units) :
       /\ units[k].st = "installed" => InstalledName(units[k].ver) \in dirs
       /\ (InstallEnded /\ units[k].fault # "none") => units[k].st = "failed"

\* The versions whose directory the running or last command has deleted.
DeletedByCommand == (pre.dirs \cap Versions) \ dirs

\* C13: at no point of a remove, nor after it, does the active-version
\* state or a per-binary link point to a version whose directory the
\* command has already deleted.
C13_DeactivateBeforeDelete ==
    cmd = "remove"
    => \A v \in DeletedByCommand :
          /\ Active # v
          /\ \A b \in BinNames : linkDir[b] # v

\* C13 on the unix builds.
UnixDeactivateBeforeDelete == Unix => C13_DeactivateBeforeDelete

----------------------------------------------------------------------------
(* use and remove while the file system refuses an operation: a copy or a
   deletion that returns Err. *)

SorryMessage == "Sorry, something went wrong."

\* use_windows when std::fs::copy(node_path, link_file) returns Err: the
\* old volt/bin/node.exe has been removed before the copy, the message is
\* printed and the function returns before volt/current is written.
UseWindowsCopyFails(ver) ==
    /\ Idle
    /\ os = "windows"
    /\ NodeExeExists(ver)
    /\ out' = {SorryMessage}
    /\ Finish("use", <<ver>>, 0)
    /\ binExe' = NoLink
    /\ UNCHANGED <<os, arch, nodeDir, dirs, current, linkDir, voltCurrent,
                   instvars>>

\* use_windows when fs::remove_file(link_file).await.unwrap() panics
UseWindowsRemoveFails(ver) ==
    /\ Idle
    /\ os = "windows"
    /\ NodeExeExists(ver)
    /\ binExe # NoLink
    /\ out' = {}
    /\ Finish("use", <<ver>>, 101)
    /\ UNCHANGED <<os, arch, fsvars, instvars>>

\* std::fs::remove_dir_all(node_dir.join(v)) returns Err: the result is
\* dropped, nothing is printed and the loop goes on
RemoveUnixDeleteDirFails ==
    /\ pc = "remove"
    /\ Unix
    /\ rstep = "delete"
    /\ UNCHANGED <<os, arch, fsvars, out, instvars>>
    /\ IF Len(queue) = 1
       THEN End(0)
       ELSE /\ queue' = Tail(queue)
            /\ rstep' = "check"
            /\ UNCHANGED <<pc, cmd, args, exit, pre, cv>>

\* windows: fs::remove_dir_all(&node_path).await.unwrap() panics
RemoveWindowsDeleteFails ==
    /\ pc = "remove"
    /\ os = "windows"
    /\ Head(queue) \in dirs
    /\ End(101)
    /\ UNCHANGED <<os, arch, fsvars, out, instvars>>

NextFault ==
    \/ NodeUse
    \/ NodeRemove
    \/ NodeList
    \/ \E ver \in ArgNames : UseWindowsCopyFails(ver)
    \/ \E ver \in ArgNames : UseWindowsRemoveFails(ver)
    \/ RemoveUnixDeleteDirFails
    \/ RemoveWindowsDeleteFails

SpecFault == Init /\ [][NextFault]_vars

\* C14: when the copy of a windows activation has failed, the executable
\* that was at the current-executable path before the command is still
\* there.
C14_CopyFailureKeepsExecutable ==
    (/\ Idle /\ os = "windows" /\ cmd = "use"
     /\ SorryMessage \in out
     /\ pre.binExe # NoLink)
    => binExe = pre.binExe

\* C15: a remove that has returned 0 has, for every requested version that
\* was installed, deleted its directory or reported the failure to remove
\* it.
C15_DeletionFailureReported ==
    (/\ Idle /\ cmd = "remove" /\ exit = 0
     /\ \A i \in 1..Len(args) : args[i] \in Versions \cap pre.dirs)
    => \A i \in 1..Len(args) :
          args[i] \notin dirs \/ RemoveFailedMessage(args[i]) \in out

\* C16: on the unix builds, when a use of an installed version W has
\* returned 0 from a state where version V was active, `current` points to
\* W, every binary of W has its link pointing to W's binary, and no link
\* points into V's bin directory any more (V other than W).
C16_UseLeavesNoStaleLinks ==
    (/\ Unix /\ Idle /\ cmd = "use" /\ exit = 0
     /\ args[1] \in Versions \cap pre.dirs
     /\ pre.current \in Versions)
    => /\ current = args[1]
       /\ \A b \in Bins(args[1]) : linkDir[b] = args[1]
       /\ pre.current # args[1]
            => \A b \in BinNames : linkDir[b] # pre.current

\* 18.0.0 was activated while 16.1.0, which has npm, was active and linked.
C16_Witness ==
    /\ Unix /\ Idle /\ cmd = "use" /\ exit = 0
    /\ args = <<"18.0.0">>
    /\ pre.current = "16.1.0"
    /\ pre.linkDir["npm"] = "16.1.0"
    /\ current = "18.0.0"

\* The installed-version directories among the entries d.
InstalledVersionDirs(d) == d \cap {InstalledName(ver) : ver \in VersionPool}

\* The unit u run alone from the installed-version directories d, meeting
\* the failure it met: it leaves d as it is when its version is there,
\* when it fails, or on a build without unpack and rename.
AfterUnitAlone(d, u) ==
    IF InstalledName(u.ver) \notin d /\ u.fault = "none" /\ Unix
    THEN d \cup {InstalledName(u.ver)}
    ELSE d

\* The first n units run one after another from the directories d.
RECURSIVE OneAfterAnother(_, _)
OneAfterAnother(d, n) ==
    IF n = 0 THEN d
    ELSE AfterUnitAlone(OneAfterAnother(d, n - 1), units[n])

\* C17: when the command returns from units for distinct versions, the
\* installed-version directories are those that running the units one
\* after another would leave, however the units interleaved.
C17_UnitsDoNotInterfere ==
    (InstallEnded /\ C7_OneUnitPerVersion)
    => InstalledVersionDirs(dirs) =
          OneAfterAnother(InstalledVersionDirs(pre.dirs), Len(units))

\* Three units for distinct versions have run on a unix build, two of them
\* to the rename and one to a failure.
C17_Witness ==
    /\ InstallEnded /\ C7_OneUnitPerVersion /\ Unix
    /\ Len(units) = 3
    /\ \E j, k \in 1..Len(units) :
          j # k /\ units[j].renamed /\ units[k].renamed
    /\ SomeUnitFailed

----------------------------------------------------------------------------
(* list after an install command: what the storage root holds when units
   have failed is what list reads. *)

\* No install command has fetched the catalog yet.
InstallNotRun == catalog = <<>> /\ cmd # "install"

NextInstallList ==
    \/ InstallNotRun /\ \E batch \in InstallBatches :
          InstallStart(batch, DefaultCatalog)
    \/ InstallNotRun /\ \E batch \in InstallBatches :
          InstallCatalogFails(batch)
    \/ NodeInstallUnits
    \/ NodeList

SpecInstallList == InitInstall /\ [][NextInstallList]_vars

\* C18: what list has printed is exactly the installed-version directories
\* of the storage root, the versions whose install completed and that were
\* not removed: not `current`, not a directory an install unit unpacked
\* and did not rename; and list exits with 1 exactly when there is none.
C18_ListReportsInstalledVersions ==
    (Idle /\ cmd = "list")
    => /\ out = InstalledVersionDirs(dirs)
       /\ exit = IF InstalledVersionDirs(dirs) = {} THEN 1 ELSE 0

\* The versions a batch names.
Requested(batch) == {batch[i] : i \in 1..Len(batch)}

\* C19: a remove of installed versions while no version is active has the
\* outcome on every build that it has on the unix builds: it returns 0,
\* the requested directories are gone, the others stay and no version is
\* active.
C19_SameContractOnAllBuilds ==
    (/\ Idle /\ cmd = "remove"
     /\ ActiveBefore = NoLink
     /\ Requested(args) \subseteq Versions \cap pre.dirs)
    => /\ exit = 0
       /\ dirs = pre.dirs \ Requested(args)
       /\ Active = NoLink

\* C19 on the unix builds.
UnixRemoveWithNoneActive == Unix => C19_SameContractOnAllBuilds

\* The specifier is one a 32-bit x86 unix target excludes: an exact version
\* from 10.0.0 on, or a range that allows such a version.
ExcludedOn32Bit(v) ==
    IF ParseVersion(v) # NoVersion
    THEN ~VersionLess(ParseVersion(v), <<10, 0, 0>>)
    ELSE v \in RangeTokens /\ AllowsAnyFrom10(v)

\* C20: on a 32-bit x86 unix target, an install whose specifiers are good
\* but for excluded ones does not abort: no excluded version is among the
\* resolved ones, and every other exact version of the batch is.
C20_ExcludedSpecifierSkipped ==
    (/\ Is32BitUnix /\ cmd = "install" /\ catalog # <<>>
     /\ \E i \in 1..Len(args) : ExcludedOn32Bit(args[i])
     /\ \A i \in 1..Len(args) :
           ExcludedOn32Bit(args[i]) \/ ~BadSpecifier(args[i], catalog))
    => /\ exit \in {-1, 0}
       /\ \A k \in 1..Len(validversions) :
             VersionLess(validversions[k], <<10, 0, 0>>)
       /\ \A i \in 1..Len(args) :
             (~ExcludedOn32Bit(args[i]) /\ ParseVersion(args[i]) # NoVersion)
             => \E k \in 1..Len(validversions) :
                   validversions[k] = ParseVersion(args[i])

\* C21: at every point of a remove of installed versions none of which is
\* the active one, and after it, `current`, the marker, the current
\* executable and every per-binary link are as they were before the
\* command; no directory but a requested one has gone, and when the
\* command has returned 0 the requested ones have.
C21_RemoveInactiveKeepsActivation ==
    (/\ cmd = "remove"
     /\ Requested(args) \subseteq Versions \cap pre.dirs
     /\ ActiveBefore \notin Requested(args))
    => /\ current = pre.current
       /\ voltCurrent = pre.voltCurrent
       /\ binExe = pre.binExe
       /\ linkDir = pre.linkDir
       /\ pre.dirs \ Requested(args) \subseteq dirs
       /\ dirs \subseteq pre.dirs
       /\ (Idle /\ exit = 0) => dirs = pre.dirs \ Requested(args)

\* 16.1.0 has been removed while 18.0.0 was active and linked.
C21_Witness ==
    /\ Idle /\ cmd = "remove" /\ exit = 0
    /\ args = <<"16.1.0">>
    /\ ActiveBefore = "18.0.0"
    /\ Unix => pre.linkDir["node"] = "18.0.0"
    /\ "18.0.0" \in dirs
    /\ "16.1.0" \in pre.dirs \ dirs

\* C22: when a use of a name that was not an installed version's directory
\* has ended, `current`, the marker, the current executable, every
\* per-binary link and the installed versions are as they were before the
\* command.
C22_FailedUseChangesNothing ==
    (Idle /\ cmd = "use" /\ args[1] \notin pre.dirs)
    => /\ current = pre.current
       /\ voltCurrent = pre.voltCurrent
       /\ binExe = pre.binExe
       /\ linkDir = pre.linkDir
       /\ dirs = pre.dirs

\* C22 for the names of versions, `current` left out.
FailedUseOfVersionChangesNothing ==
    args # <<>> /\ args[1] \in Versions => C22_FailedUseChangesNothing

====
